---- MODULE Spec2Model ----
(***************************************************************************)
(* Persistence layer of the fleet-management API                           *)
(* (db_controller/database_backend.py).                                    *)
(*                                                                         *)
(* Every repository function is one atomic action.  A function body is     *)
(* translated statement by statement into an operator that threads a       *)
(* context record through the statements:                                  *)
(*    db     the committed contents of the tables,                         *)
(*    conns  the connections opened so far in the call (open flag and the  *)
(*           uncommitted write of the connection's transaction),           *)
(*    log    the driver calls made, in order,                              *)
(*    n, F   the number of driver calls made and the set of ordinal        *)
(*           numbers of the driver calls that the database fails,          *)
(*    exc    the exception in flight ("none" when there is none),          *)
(*    ret    the value returned by the last completed call.                *)
(* Column values are written as natural numbers; None is Python's None.    *)
(*                                                                         *)
(* session_to_db opens connections with the driver's defaults, whose       *)
(* cursors yield rows as tuples; the functions that read rows subscript    *)
(* them with column names, which only rows of a dictionary cursor allow.   *)
(* rows_as says which rows the driver delivers: both cases are covered.    *)
(*                                                                         *)
(* Variables: db, the committed tables; open_conns, the connections that   *)
(* calls have left open; last, the call just made (its arguments, driver   *)
(* log, outcome and the tables before it); prev_key, the key of the store  *)
(* write made before it; supplied, for each user name the password hash    *)
(* of the latest manage_user_authentication call that returned; config,    *)
(* the DB_RDS section of the constants file; calls, the                    *)
(* manage_user_authentication calls of two concurrent callers (SpecRace).  *)
(***************************************************************************)
EXTENDS Integers, Sequences, FiniteSets, TLC

VARIABLES db, open_conns, rows_as, repository, last, prev_key, supplied, config, calls

vars == <<db, open_conns, rows_as, repository, last, prev_key, supplied, config, calls>>

(***************************************************************************)
(* Bounds of the model.                                                    *)
(***************************************************************************)
MaxStoreRows == 2
MaxVanRows == 2
MaxSeq == 3
MaxOpenConns == 6

None == -1
NoExc == "none"

StoreTable == "store_api"
VanTable == "van"
UsersTable == "users_auth"

(***************************************************************************)
(* Python values.                                                          *)
(***************************************************************************)
Truthy(v) == v # None /\ v # 0

Digit(d) == <<"0", "1", "2", "3", "4", "5", "6", "7", "8", "9">>[d + 1]

\* str(v) as a sequence of characters
Str(v) == IF v = None THEN <<"N", "o", "n", "e">>
          ELSE IF v < 10 THEN <<Digit(v)>>
          ELSE <<Digit(v \div 10), Digit(v % 10)>>

\* a in b  for two strings
StrIn(a, b) == \E k \in 0..Len(b) :
                  /\ k + Len(a) <= Len(b)
                  /\ \A i \in 1..Len(a) : b[k + i] = a[i]

\* the exception kinds an "except SQLAlchemyError" clause catches
CaughtAsSQLAlchemyError(kind) == kind = "SQLAlchemyError"

(***************************************************************************)
(* Context plumbing.                                                       *)
(***************************************************************************)
Ctx(d, F, rk) == [db |-> d, F |-> F, rk |-> rk, n |-> 0, conns |-> <<>>,
                  log |-> <<>>, exc |-> NoExc, ret |-> None, msg |-> "", cfg |-> config]

Ok(c) == c.exc = NoExc

Raise(c, kind) == [c EXCEPT !.exc = kind]

Return(c, v) == [c EXCEPT !.ret = v]

Ev(c, e, conn, what) == [c EXCEPT !.log = Append(@, [ev |-> e, conn |-> conn, what |-> what])]

\* the next driver call is one the database fails
Fails(c) == (c.n + 1) \in c.F

Tick(c) == [c EXCEPT !.n = @ + 1]

\* the value bound to a local after a call: None when the call raised
Local(c) == IF Ok(c) THEN c.ret ELSE None

\* F(e), with e evaluated once (sequencing of statements; not a part of the
\* program)
Let(e, F(_)) == CHOOSE r \in {F(v) : v \in {e}} : TRUE

(***************************************************************************)
(* The driver: connections, cursors, transactions.                         *)
(***************************************************************************)
autocommit_on == TRUE

\* psycopg2.connect is called with the driver's defaults
autocommit == FALSE

NoWrite == <<>>

\* the keys of cfg['DB_RDS'] that init_connect_db reads, in the order it
\* reads them
ConfigKeys == <<"HOST_DB", "USER_DB", "PASSWORD_DB", "PORT_DB", "SQL_DRIVER", "DATABASE_NAME">>

\* cfg['DB_RDS'][key] of a key that the file does not have raises KeyError;
\* a key with no value yields None
init_connect_db(c) ==
    IF \E i \in 1..Len(ConfigKeys) : c.cfg[ConfigKeys[i]] = "missing"
    THEN Raise(c, "KeyError")
    ELSE Return(c, <<c.cfg.HOST_DB, c.cfg.USER_DB, c.cfg.PASSWORD_DB, c.cfg.PORT_DB,
                     c.cfg.DATABASE_NAME>>)

\* psycopg2.connect(user=..., password=..., host=..., port=..., database=...)
psycopg2_connect_pooled(c) ==
    IF Fails(c)
    THEN Raise(Ev(Tick(c), "connect_failed", 0, "-"), "psycopg2.Error")
    ELSE IF Len(c.conns) > 0
    THEN Return(Ev([Tick(c) EXCEPT !.conns[1].open = TRUE], "connect", 1, "-"), 1)
    ELSE Return(Ev([Tick(c) EXCEPT !.conns = <<[open |-> TRUE, pend |-> NoWrite]>>],
                   "connect", 1, "-"), 1)

psycopg2_connect(c) ==
    IF Fails(c)
    THEN Raise(Ev(Tick(c), "connect_failed", 0, "-"), "psycopg2.Error")
    ELSE LET id == Len(c.conns) + 1
         IN Return(Ev([Tick(c) EXCEPT !.conns = Append(@, [open |-> TRUE, pend |-> NoWrite])],
                      "connect", id, "-"), id)

session_to_db_retrying(c) ==
    Let(init_connect_db(c), LAMBDA c0 :
    IF ~Ok(c0) THEN c0
    ELSE Let(psycopg2_connect(c0), LAMBDA c1 :
         IF Ok(c1) THEN c1
         ELSE Let(psycopg2_connect([c1 EXCEPT !.exc = NoExc]), LAMBDA c2 :
              IF Ok(c2) THEN c2 ELSE Raise(c2, "ConnectionError"))))

session_to_db(c) ==
    Let(init_connect_db(c), LAMBDA c0 :
    IF ~Ok(c0) THEN c0
    \* if data_bd_connection: ... else: logger.error(...)
    ELSE IF c0.ret = <<>> THEN Return(c0, None)
    ELSE Let(psycopg2_connect(c0), LAMBDA c1 :
         IF Ok(c1) THEN c1 ELSE Raise(c1, "ConnectionError")))


\* conn.cursor()
conn_cursor(c, conn) ==
    IF Fails(c)
    THEN Raise(Ev(Tick(c), "cursor_failed", conn, "-"), "psycopg2.Error")
    ELSE Ev(Tick(c), "cursor", conn, "-")

create_cursor(c, conn) ==
    LET c1 == conn_cursor(c, conn)
    IN IF Ok(c1) THEN c1 ELSE Raise(c1, "ConnectionError")

close_cursor(c, conn) == Ev(c, "close_cursor", conn, "-")

disconnect_on_success(c, conn) ==
    IF conn = None \/ ~Ok(c) THEN c
    ELSE Ev([c EXCEPT !.conns[conn] = [open |-> FALSE, pend |-> NoWrite]], "close", conn, "-")

disconnect_from_db(c, conn) ==
    IF conn = None THEN c
    ELSE Ev([c EXCEPT !.conns[conn] = [open |-> FALSE, pend |-> NoWrite]], "close", conn, "-")

\* a caller that opens a connection and closes it
OwnConnection(c) ==
    Let(session_to_db(c), LAMBDA c1 : disconnect_from_db(c1, Local(c1)))

execute_query_and_commit(c, conn, what) ==
    IF Fails(c)
    THEN Raise(Ev(Tick(c), "execute_failed", conn, what), "psycopg2.Error")
    ELSE Ev(Ev(Tick(c), "execute", conn, what), "commit", conn, "-")

\* cursor.execute of a statement that reads
execute_query(c, conn, what) ==
    IF Fails(c)
    THEN Raise(Ev(Tick(c), "execute_failed", conn, what), "psycopg2.Error")
    ELSE Ev(Tick(c), "execute", conn, what)

\* cursor.execute(sql, params) of a statement that writes: the driver
\* substitutes params into the placeholders of sql before it sends anything
execute_write(c, conn, what, placeholders, params, table, rows) ==
    IF Len(params) < placeholders THEN Raise(Ev(c, "execute_failed", conn, what), "IndexError")
    ELSE IF Len(params) > placeholders THEN Raise(Ev(c, "execute_failed", conn, what), "TypeError")
    ELSE IF Fails(c)
    THEN Raise(Ev(Tick(c), "execute_failed", conn, what), "psycopg2.Error")
    ELSE LET c1 == Ev(Tick(c), "execute", conn, what)
         IN IF autocommit
            THEN [c1 EXCEPT !.db[table] = rows]
            ELSE [c1 EXCEPT !.conns[conn].pend = <<[table |-> table, rows |-> rows]>>]

\* what the statements of connection conn see of a table
Visible(c, conn, table) ==
    IF c.conns[conn].pend # NoWrite /\ c.conns[conn].pend[1].table = table
    THEN c.conns[conn].pend[1].rows
    ELSE c.db[table]

conn_commit_deferred(c, conn) ==
    IF Fails(c)
    THEN Raise(Ev([Tick(c) EXCEPT !.conns[conn].pend = NoWrite], "commit_failed", conn, "-"),
               "psycopg2.Error")
    ELSE Ev(Tick(c), "commit", conn, "-")

conn_commit(c, conn) ==
    IF Fails(c)
    THEN Raise(Ev([Tick(c) EXCEPT !.conns[conn].pend = NoWrite], "commit_failed", conn, "-"),
               "psycopg2.Error")
    ELSE LET p == c.conns[conn].pend
             c1 == Ev(Tick(c), "commit", conn, "-")
         IN IF p = NoWrite THEN c1
            ELSE [c1 EXCEPT !.db[p[1].table] = p[1].rows, !.conns[conn].pend = NoWrite]

conn_rollback(c, conn) ==
    IF Fails(c)
    THEN Raise(Ev(Tick(c), "rollback_failed", conn, "-"), "psycopg2.Error")
    ELSE Ev([Tick(c) EXCEPT !.conns[conn].pend = NoWrite], "rollback", conn, "-")

\* row[column_name]: rows of the default cursor are tuples
RowByName(c, row, column_name) ==
    IF c.rk = "tuple" THEN Raise(c, "TypeError") ELSE Return(c, row[column_name])

\* except SQLAlchemyError as error: conn.rollback(); raise SQLAlchemyError(...)
except_SQLAlchemyError(c, conn) ==
    IF CaughtAsSQLAlchemyError(c.exc)
    THEN IF conn = None THEN Raise(c, "AttributeError")
         ELSE LET c1 == conn_rollback([c EXCEPT !.exc = NoExc], conn)
              IN IF Ok(c1) THEN Raise(c1, "SQLAlchemyError") ELSE c1
    ELSE c

\* except SQLAlchemyError as error: ... finally: disconnect_from_db(conn)
except_finally(c, conn) ==
    Let(except_SQLAlchemyError(c, conn), LAMBDA c1 : disconnect_from_db(c1, conn))

(***************************************************************************)
(* get_datenow_from_db                                                     *)
(***************************************************************************)
get_datenow_from_db(c) ==
    Let(session_to_db(c), LAMBDA c1 :
    Let(IF Ok(c1) THEN create_cursor(c1, Local(c1)) ELSE c1, LAMBDA c2 :
    Let(IF Ok(c2) THEN execute_query(c2, Local(c1), "SELECT now()") ELSE c2, LAMBDA c3 :
    Let(IF Ok(c3) THEN Return(close_cursor(c3, Local(c1)), c3.db.clock) ELSE c3, LAMBDA c4 :
    Let(except_SQLAlchemyError(c4, Local(c1)), LAMBDA c5 :
    disconnect_from_db(c5, Local(c1)))))))

(***************************************************************************)
(* get_nextval_economic_number_van                                         *)
(***************************************************************************)
currval(seq) == seq

\* SELECT nextval('urbvan.eco_num_van')
nextval(seq) == seq + 1

\* cursor.execute(sql_nextval_seq); cursor.fetchone(): the sequence advances
\* outside of any transaction
execute_nextval(c, conn) ==
    IF Fails(c)
    THEN Raise(Ev(Tick(c), "execute_failed", conn, "SELECT nextval"), "psycopg2.Error")
    ELSE Return(Ev([Tick(c) EXCEPT !.db.seq = nextval(@)], "execute", conn, "SELECT nextval"),
                <<nextval(c.db.seq)>>)

get_nextval_economic_number_van(c, conn) ==
    Let(create_cursor(c, conn), LAMBDA c1 :
    Let(IF Ok(c1) THEN execute_nextval(c1, conn) ELSE c1, LAMBDA c2 :
    Let(IF Ok(c2) THEN Return(close_cursor(c2, conn), c2.ret) ELSE c2, LAMBDA c3 :
    except_SQLAlchemyError(c3, conn))))

\* a caller that opens a connection, passes it to
\* get_nextval_economic_number_van and closes it
NextvalOnOwnConnection(c) ==
    Let(session_to_db(c), LAMBDA c1 :
    Let(IF Ok(c1) THEN get_nextval_economic_number_van(c1, Local(c1)) ELSE c1, LAMBDA c2 :
    disconnect_from_db(c2, Local(c1))))

(***************************************************************************)
(* exists_data_row, validate_transaction                                   *)
(***************************************************************************)
Matching2(rows, f1, v1, f2, v2) ==
    SelectSeq(rows, LAMBDA r : r[f1] = v1 /\ r[f2] = v2)

Matching3(rows, f1, v1, f2, v2, f3, v3) ==
    SelectSeq(rows, LAMBDA r : r[f1] = v1 /\ r[f2] = v2 /\ r[f3] = v3)

\* for r_e in row_exists: row_data = r_e[column_name]; close_cursor(cursor)
RECURSIVE RowLoop(_, _, _, _, _)
RowLoop(c, conn, rows, column_name, i) ==
    IF i > Len(rows) THEN c
    ELSE Let(RowByName(c, rows[i], column_name), LAMBDA c1 :
             IF Ok(c1) THEN RowLoop(close_cursor(c1, conn), conn, rows, column_name, i + 1)
             ELSE c1)

\* row_data = None; row_exists = cursor.fetchall(); the loop over row_exists
FetchAndScan(c, conn, row_exists, column_name) ==
    Let(row_exists, LAMBDA rows : RowLoop(Return(c, None), conn, rows, column_name, 1))

exists_data_row(c, table_name, column_name, f1, v1, f2, v2) ==
    Let(session_to_db(c), LAMBDA c1 :
    Let(IF Ok(c1) THEN conn_cursor(c1, Local(c1)) ELSE c1, LAMBDA c2 :
    Let(IF Ok(c2) THEN execute_query(c2, Local(c1), "SELECT") ELSE c2, LAMBDA c3 :
    Let(IF Ok(c3)
        THEN FetchAndScan(c3, Local(c1),
                          Matching2(Visible(c3, Local(c1), table_name), f1, v1, f2, v2),
                          column_name)
        ELSE c3, LAMBDA c4 :
    Let(except_SQLAlchemyError(c4, Local(c1)), LAMBDA c5 :
    disconnect_from_db(c5, Local(c1)))))))

validate_transaction(c, table_name, column_name, f1, v1, f2, v2, f3, v3) ==
    Let(session_to_db(c), LAMBDA c1 :
    Let(IF Ok(c1) THEN conn_cursor(c1, Local(c1)) ELSE c1, LAMBDA c2 :
    Let(IF Ok(c2) THEN execute_query(c2, Local(c1), "SELECT") ELSE c2, LAMBDA c3 :
    Let(IF Ok(c3)
        THEN FetchAndScan(c3, Local(c1),
                          Matching3(Visible(c3, Local(c1), table_name), f1, v1, f2, v2, f3, v3),
                          column_name)
        ELSE c3, LAMBDA c4 :
    Let(except_SQLAlchemyError(c4, Local(c1)), LAMBDA c5 :
    disconnect_from_db(c5, Local(c1)))))))

(***************************************************************************)
(* Store repository                                                        *)
(***************************************************************************)
StoreColumns == <<"id_store", "store_name", "store_code", "store_street_address",
                  "store_external_number", "store_suburb_address", "store_city_address",
                  "store_country_address", "store_zippostal_code", "store_min_inventory",
                  "creation_date", "last_update_date">>

ColumnSet(cols) == {cols[i] : i \in 1..Len(cols)}

ColumnIndex(cols, col) == CHOOSE i \in 1..Len(cols) : cols[i] = col

\* the row INSERT INTO t (cols) VALUES (params) creates: values go to the
\* columns by position
InsertedRow(cols, params) ==
    [col \in ColumnSet(cols) |->
        IF ColumnIndex(cols, col) <= Len(params) THEN params[ColumnIndex(cols, col)] ELSE None]

\* the rows after UPDATE t SET cols = params WHERE f1 = v1 AND f2 = v2
UpdatedRows(rows, cols, params, f1, v1, f2, v2) ==
    [i \in 1..Len(rows) |->
        IF rows[i][f1] = v1 /\ rows[i][f2] = v2
        THEN [col \in DOMAIN rows[i] |->
                 IF col \in ColumnSet(cols) /\ ColumnIndex(cols, col) <= Len(params)
                 THEN params[ColumnIndex(cols, col)] ELSE rows[i][col]]
        ELSE rows[i]]

\* the rows after DELETE FROM t WHERE f1 = v1 AND f2 = v2
RemainingRowsByFirstColumn(rows, f1, v1, f2, v2) ==
    SelectSeq(rows, LAMBDA r : ~(r[f1] = v1))

RemainingRows(rows, f1, v1, f2, v2) ==
    SelectSeq(rows, LAMBDA r : ~(r[f1] = v1 /\ r[f2] = v2))

\* "{} no. {}, col. {}, Cp. {}, {}, {}", as a sequence of characters
AddressTemplate ==
    <<"{", "}", " ", "n", "o", ".", " ", "{", "}", ",", " ", "c", "o", "l", ".",
      " ", "{", "}", ",", " ", "C", "p", ".", " ", "{", "}", ",", " ", "{", "}",
      ",", " ", "{", "}">>

\* template.format(*args) for a template with "{}" fields only: the k-th
\* field is replaced by the k-th argument, which is not scanned again, and
\* every other character is copied
RECURSIVE str_format(_, _, _, _)
str_format(template, args, i, k) ==
    IF i > Len(template) THEN <<>>
    ELSE IF i < Len(template) /\ template[i] = "{" /\ template[i + 1] = "}"
    THEN args[k] \o str_format(template, args, i + 2, k + 1)
    ELSE <<template[i]>> \o str_format(template, args, i + 1, k)

format_zip_after_city(street_address, external_number_address, suburb_address, zip_postal_code_address, city_address, country_address) ==
    str_format(AddressTemplate,
               <<street_address, external_number_address, suburb_address, city_address,
                 zip_postal_code_address, country_address>>, 1, 1)

format_store_address(street_address, external_number_address, suburb_address, zip_postal_code_address, city_address, country_address) ==
    str_format(AddressTemplate,
               <<street_address, external_number_address, suburb_address,
                 zip_postal_code_address, city_address, country_address>>, 1, 1)

\* json.dumps(payload): a payload that holds a value read from the database
\* clock (a datetime) is not serializable
json_dumps(c, payload, has_datetime) ==
    IF has_datetime THEN Raise(c, "TypeError") ELSE Return(c, payload)

InsertPlaceholders == 12

\* data_insert
InsertParams(store_obj) ==
    <<store_obj.id_store, store_obj.store_code, store_obj.store_name,
      store_obj.external_number, store_obj.street_address, store_obj.suburb_address,
      store_obj.city_address, store_obj.country_address, store_obj.zip_postal_address,
      store_obj.minimum_stock>>

insert_new_store(c, table_name, store_obj) ==
    Let(session_to_db(c), LAMBDA c1 :
    Let(IF Ok(c1) THEN conn_cursor(c1, Local(c1)) ELSE c1, LAMBDA c2 :
    Let(IF Ok(c2) THEN get_datenow_from_db(c2) ELSE c2, LAMBDA c3 :
    Let(IF Ok(c3) THEN get_datenow_from_db(c3) ELSE c3, LAMBDA c4 :
    Let(IF Ok(c4)
        THEN execute_write(c4, Local(c1), "INSERT", InsertPlaceholders,
                           InsertParams(store_obj), StoreTable,
                           Append(Visible(c4, Local(c1), StoreTable),
                                  InsertedRow(StoreColumns, InsertParams(store_obj))))
        ELSE c4, LAMBDA c5 :
    Let(IF Ok(c5) THEN conn_commit(c5, Local(c1)) ELSE c5, LAMBDA c6 :
    Let(IF Ok(c6) THEN close_cursor(c6, Local(c1)) ELSE c6, LAMBDA c7 :
    Let(IF Ok(c7)
        THEN validate_transaction(c7, table_name, "id_store",
                                  "id_store", store_obj.id_store,
                                  "store_code", store_obj.store_code,
                                  "store_name", store_obj.store_name)
        ELSE c7, LAMBDA c8 :
    Let(IF Ok(c8)
        THEN IF ~StrIn(Str(store_obj.id_store), Str(c8.ret))
             THEN [c8 EXCEPT !.msg = "Store Inserted Successful"]
             ELSE [c8 EXCEPT !.msg = "Store already Inserted"]
        ELSE c8, LAMBDA c9 :
    Let(except_SQLAlchemyError(c9, Local(c1)), LAMBDA c10 :
    Let(disconnect_from_db(c10, Local(c1)), LAMBDA c11 :
    IF Ok(c11)
    THEN json_dumps(c11,
                    [IdStore |-> store_obj.id_store, CodeStore |-> store_obj.store_code,
                     NameStore |-> store_obj.store_name,
                     AddressStore |->
                         format_store_address(Str(store_obj.street_address),
                                              Str(store_obj.external_number),
                                              Str(store_obj.suburb_address),
                                              Str(store_obj.zip_postal_address),
                                              Str(store_obj.city_address),
                                              Str(store_obj.country_address)),
                     MinimumStock |-> store_obj.minimum_stock, CreationDate |-> Local(c3)],
                    TRUE)
    ELSE c11)))))))))))

UpdateColumns == <<"store_name", "store_street_address", "store_external_number",
                   "store_suburb_address", "store_city_address", "store_country_address",
                   "store_zippostal_code", "store_min_inventory", "last_update_date">>

UpdatePlaceholders == 11

\* data_store("street_address"): data_store is a dictionary, and a
\* dictionary is not callable
dict_call(c, data_store, key) == Raise(c, "TypeError")

\* the parameters of the UPDATE
UpdateParams(data_store, street_address, external_number_address) ==
    <<data_store.store_name, street_address, external_number_address,
      data_store.suburb_address, data_store.city_address, data_store.country_address,
      data_store.zip_postal_code_address, data_store.minimum_inventory>>

update_store_data(c, table_name, data_store) ==
    Let(session_to_db(c), LAMBDA c1 :
    Let(IF Ok(c1) THEN conn_cursor(c1, Local(c1)) ELSE c1, LAMBDA c2 :
    Let(IF Ok(c2) THEN get_datenow_from_db(c2) ELSE c2, LAMBDA c3 :
    Let(IF Ok(c3) THEN dict_call(c3, data_store, "street_address") ELSE c3, LAMBDA c4 :
    Let(IF Ok(c4) THEN dict_call(c4, data_store, "external_number_address") ELSE c4, LAMBDA c5 :
    Let(IF Ok(c5)
        THEN execute_write(c5, Local(c1), "UPDATE", UpdatePlaceholders,
                           UpdateParams(data_store, Local(c4), Local(c5)), table_name,
                           UpdatedRows(Visible(c5, Local(c1), table_name), UpdateColumns,
                                       UpdateParams(data_store, Local(c4), Local(c5)),
                                       "id_store", data_store.store_id,
                                       "store_code", data_store.store_code))
        ELSE c5, LAMBDA c6 :
    Let(IF Ok(c6) THEN conn_commit(c6, Local(c1)) ELSE c6, LAMBDA c7 :
    Let(IF Ok(c7) THEN close_cursor(c7, Local(c1)) ELSE c7, LAMBDA c8 :
    Let(IF Ok(c8)
        THEN validate_transaction(c8, table_name, "id_store",
                                  "id_store", data_store.store_id,
                                  "store_code", data_store.store_code,
                                  "store_name", data_store.store_name)
        ELSE c8, LAMBDA c9 :
    Let(IF Ok(c9)
        THEN IF StrIn(Str(data_store.store_id), Str(c9.ret))
             THEN [c9 EXCEPT !.msg = "Store Updated Successful"]
             \* logger.error(... status_van ...): the name status_van is not defined
             ELSE Raise([c9 EXCEPT !.msg = "Store not updated"], "NameError")
        ELSE c9, LAMBDA c10 :
    Let(except_SQLAlchemyError(c10, Local(c1)), LAMBDA c11 :
    Let(disconnect_from_db(c11, Local(c1)), LAMBDA c12 :
    IF Ok(c12)
    THEN json_dumps(c12,
                    [IdStore |-> data_store.store_id, CodeStore |-> data_store.store_code,
                     NameStore |-> data_store.store_name,
                     AddressStore |->
                         format_store_address(Str(Local(c4)), Str(Local(c5)),
                                              Str(data_store.suburb_address),
                                              Str(data_store.zip_postal_code_address),
                                              Str(data_store.city_address),
                                              Str(data_store.country_address)),
                     MinimumStock |-> data_store.minimum_inventory,
                     LastUpdateDate |-> Local(c3)],
                    TRUE)
    ELSE c12))))))))))))

delete_store_data(c, table_name, store_id, store_code) ==
    Let(session_to_db(c), LAMBDA c1 :
    Let(IF Ok(c1) THEN conn_cursor(c1, Local(c1)) ELSE c1, LAMBDA c2 :
    Let(IF Ok(c2)
        THEN execute_write(c2, Local(c1), "DELETE", 2, <<store_id, store_code>>, table_name,
                           RemainingRows(Visible(c2, Local(c1), table_name),
                                         "id_store", store_id, "store_code", store_code))
        ELSE c2, LAMBDA c3 :
    Let(IF Ok(c3) THEN conn_commit(c3, Local(c1)) ELSE c3, LAMBDA c4 :
    Let(IF Ok(c4)
        THEN [close_cursor(c4, Local(c1)) EXCEPT !.msg = "Store Deleted Successful"]
        ELSE c4, LAMBDA c5 :
    Let(IF Ok(c5)
        THEN exists_data_row(c5, table_name, "id_store",
                             "id_store", store_id, "store_code", store_code)
        ELSE c5, LAMBDA c6 :
    Let(IF Ok(c6)
        THEN IF StrIn(Str(store_id), Str(c6.ret))
             THEN [c6 EXCEPT !.msg = "Store not deleted"]
             ELSE Raise(c6, "ItemNotStored")
        ELSE c6, LAMBDA c7 :
    Let(except_SQLAlchemyError(c7, Local(c1)), LAMBDA c8 :
    Let(disconnect_from_db(c8, Local(c1)), LAMBDA c9 :
    IF Ok(c9)
    THEN json_dumps(c9, [IdStore |-> store_id, CodeStore |-> store_code], FALSE)
    ELSE c9)))))))))

(***************************************************************************)
(* Van repository                                                          *)
(***************************************************************************)
call_binds_van(c, function, declared, passed) ==
    IF function = "insert_new_store"
    THEN [Ev(c, "call", 0, function) EXCEPT !.db.van =
             Append(@, [uuid_van |-> passed[2], plates_van |-> passed[3],
                        economic_number_van |-> passed[4], seats_van |-> passed[5],
                        status_van |-> passed[6],
                        created_at |-> [s |-> c.db.clock, us |-> 0],
                        last_update_date |-> [s |-> c.db.clock, us |-> 0]])]
    ELSE Ev(c, "call", 0, function)

\* f(a1, ..., an) for a function declared with m positional parameters
call_positional(c, function, declared, passed) ==
    IF Len(passed) # declared THEN Raise(Ev(c, "call_failed", 0, function), "TypeError")
    ELSE Ev(c, "call", 0, function)

manage_van_vehicle_data(c, uuid_van, plates_van, economic_number_van, seats_van, status_van) ==
    Let(exists_data_row(c, VanTable, "uuid_van", "uuid_van", uuid_van, "plates_van", plates_van),
        LAMBDA c1 :
    IF ~Ok(c1) THEN c1
    ELSE IF Truthy(c1.ret)
    THEN call_positional(c1, "update_store_data", 2,
                         <<VanTable, uuid_van, plates_van, economic_number_van, seats_van,
                           status_van>>)
    ELSE call_positional(c1, "insert_new_store", 2,
                         <<VanTable, uuid_van, plates_van, economic_number_van, seats_van,
                           status_van>>))

\* datetime.strptime(str(ts), "%Y-%m-%d %H:%M:%S"): str() of a timestamp
\* prints the microseconds when they are not zero
strptime_seconds(c, ts) ==
    IF ts.us # 0 THEN Raise(c, "ValueError") ELSE Return(c, ts)

VanRecord(row) ==
    [VanVehicle |-> [UUID |-> row.uuid_van, Plate |-> row.plates_van,
                     EconomicNumber |-> row.economic_number_van,
                     SeatsNumber |-> row.seats_van, Status |-> row.status_van,
                     CreationDate |-> row.created_at,
                     LastUpdateDate |-> row.last_update_date]]

\* for van_data in result: read the seven columns, parse the dates, append
RECURSIVE VanLoop(_, _, _, _)
VanLoop(c, rows, acc, i) ==
    IF i > Len(rows) THEN Return(c, acc)
    ELSE Let(RowByName(c, rows[i], "uuid_van"), LAMBDA c1 :
         Let(IF Ok(c1) THEN strptime_seconds(c1, rows[i].created_at) ELSE c1, LAMBDA c2 :
         Let(IF Ok(c2) THEN strptime_seconds(c2, rows[i].last_update_date) ELSE c2, LAMBDA c3 :
         IF Ok(c3) THEN VanLoop(c3, rows, Append(acc, VanRecord(rows[i])), i + 1)
         ELSE c3)))

\* result = cursor.fetchall(): the list of the rows selected, empty when no
\* row is; the driver never hands out None.  The list is kept in a 1-tuple,
\* and None is the empty tuple.
fetchall(rows) == <<rows>>

result_is_not_None_nor_empty(result) == result # <<>> /\ result[1] # <<>>

\* if result is not None:
result_is_not_None(result) == result # <<>>

select_van(c, table_name, column_filter, value) ==
    Let(session_to_db(c), LAMBDA c1 :
    Let(IF Ok(c1) THEN conn_cursor(c1, Local(c1)) ELSE c1, LAMBDA c2 :
    Let(IF Ok(c2) THEN execute_query(c2, Local(c1), "SELECT") ELSE c2, LAMBDA c3 :
    Let(IF Ok(c3)
        THEN Let(fetchall(SelectSeq(Visible(c3, Local(c1), table_name),
                                    LAMBDA r : r[column_filter] = value)),
                 LAMBDA result : IF result_is_not_None(result)
                                 THEN VanLoop(c3, result[1], <<>>, 1)
                                 ELSE Raise(c3, "ItemNotStored"))
        ELSE c3, LAMBDA c4 :
    Let(IF Ok(c4) THEN close_cursor(c4, Local(c1)) ELSE c4, LAMBDA c5 :
    Let(IF Ok(c5) THEN json_dumps(c5, c5.ret, c5.ret # <<>>) ELSE c5, LAMBDA c6 :
    Let(except_SQLAlchemyError(c6, Local(c1)), LAMBDA c7 :
    disconnect_from_db(c7, Local(c1)))))))))

select_van_by_uuid(c, table_name, uuid_van) == select_van(c, table_name, "uuid_van", uuid_van)

select_van_by_status(c, table_name, status_van) ==
    select_van(c, table_name, "status_van", status_van)

(***************************************************************************)
(* User repository                                                         *)
(***************************************************************************)
UserRowsNamed(rows, user_name) == SelectSeq(rows, LAMBDA r : r.username = user_name)

\* SELECT EXISTS(SELECT 1 FROM users WHERE username = user_name LIMIT 1)
validate_user_exists(c, user_name) ==
    Let(session_to_db(c), LAMBDA c1 :
    Let(IF Ok(c1) THEN conn_cursor(c1, Local(c1)) ELSE c1, LAMBDA c2 :
    Let(IF Ok(c2) THEN execute_query(c2, Local(c1), "SELECT EXISTS") ELSE c2, LAMBDA c3 :
    IF Ok(c3)
    THEN Return(c3, <<\E i \in 1..Len(c3.db[UsersTable]) :
                         c3.db[UsersTable][i].username = user_name>>)
    ELSE c3)))

\* UPDATE users SET password_hash = %s, last_update_date = NOW() WHERE username = %s
PasswordUpdatedInEveryRow(rows, password_hash, user_name, now) ==
    [i \in 1..Len(rows) |->
        [rows[i] EXCEPT !.password_hash = password_hash, !.last_update_date = now]]

PasswordUpdated(rows, password_hash, user_name, now) ==
    [i \in 1..Len(rows) |->
        IF rows[i].username = user_name
        THEN [rows[i] EXCEPT !.password_hash = password_hash, !.last_update_date = now]
        ELSE rows[i]]

update_user_password_hashed(c, user_name, password_hash) ==
    Let(session_to_db(c), LAMBDA c1 :
    Let(IF Ok(c1) THEN create_cursor(c1, Local(c1)) ELSE c1, LAMBDA c2 :
    Let(IF Ok(c2) THEN get_datenow_from_db(c2) ELSE c2, LAMBDA c3 :
    Let(IF Ok(c3)
        THEN execute_write(c3, Local(c1), "UPDATE", 2, <<password_hash, user_name>>, UsersTable,
                           PasswordUpdated(Visible(c3, Local(c1), UsersTable), password_hash,
                                           user_name, c3.db.clock))
        ELSE c3, LAMBDA c4 :
    Let(IF Ok(c4) THEN conn_commit(c4, Local(c1)) ELSE c4, LAMBDA c5 :
    IF Ok(c5) THEN Return(close_cursor(c5, Local(c1)), None) ELSE c5)))))

UserColumns == <<"user_id", "username", "password", "password_hash">>

insert_user_authenticated(c, user_id, user_name, user_password, password_hash) ==
    Let(session_to_db(c), LAMBDA c1 :
    Let(IF Ok(c1) THEN create_cursor(c1, Local(c1)) ELSE c1, LAMBDA c2 :
    Let(IF Ok(c2) THEN get_datenow_from_db(c2) ELSE c2, LAMBDA c3 :
    Let(IF Ok(c3)
        THEN execute_write(c3, Local(c1), "INSERT", 4,
                           <<user_id, user_name, user_password, password_hash>>, UsersTable,
                           Append(Visible(c3, Local(c1), UsersTable),
                                  [last_update_date |-> None] @@
                                  InsertedRow(UserColumns,
                                              <<user_id, user_name, user_password,
                                                password_hash>>)))
        ELSE c3, LAMBDA c4 :
    Let(IF Ok(c4) THEN conn_commit(c4, Local(c1)) ELSE c4, LAMBDA c5 :
    IF Ok(c5) THEN Return(close_cursor(c5, Local(c1)), None) ELSE c5)))))

UserVerifiedAsTuple(user_verification) == user_verification # <<>>

UserVerifiedNegated(user_verification) == ~user_verification[1]

\* user_verification[0]
UserVerified(user_verification) == user_verification[1]

manage_user_authentication(c, user_id, user_name, user_password, password_hash) ==
    Let(validate_user_exists(c, user_name), LAMBDA c1 :
    Let(IF ~Ok(c1) THEN c1
        ELSE IF UserVerified(c1.ret)
        THEN update_user_password_hashed(Ev(c1, "call", 0, "update_user_password_hashed"),
                                         user_name, password_hash)
        ELSE insert_user_authenticated(Ev(c1, "call", 0, "insert_user_authenticated"),
                                       user_id, user_name, user_password, password_hash),
        LAMBDA c2 :
    IF CaughtAsSQLAlchemyError(c2.exc) THEN Raise(c2, "ItemNotStored") ELSE c2))

\* manage_user_authentication from the result of validate_user_exists on:
\* the branch and the except clause
manage_user_authentication_after_check(c, user_verification, user_id, user_name, user_password, password_hash) ==
    Let(IF UserVerified(user_verification)
        THEN update_user_password_hashed(Ev(c, "call", 0, "update_user_password_hashed"),
                                         user_name, password_hash)
        ELSE insert_user_authenticated(Ev(c, "call", 0, "insert_user_authenticated"),
                                       user_id, user_name, user_password, password_hash),
        LAMBDA c2 :
    IF CaughtAsSQLAlchemyError(c2.exc) THEN Raise(c2, "ItemNotStored") ELSE c2)

\* the session the caller of get_data_user_authentication passes
open_session(c) ==
    Return(Ev([c EXCEPT !.conns = Append(@, [open |-> TRUE, pend |-> NoWrite])],
              "session", Len(c.conns) + 1, "-"),
           Len(c.conns) + 1)

\* SELECT user_name, user_password, password_hash, last_update_date
SessionSelectColumns == {"user_name", "user_password", "password_hash", "last_update_date"}

\* session.execute(sql): the database fails a statement that names a column
\* the table does not have, and the session raises it as a SQLAlchemyError
session_execute(c, session, columns, table_columns) ==
    IF ~(columns \subseteq table_columns)
    THEN Raise(Ev(c, "execute_failed", session, "SELECT"), "SQLAlchemyError")
    ELSE IF Fails(c)
    THEN Raise(Ev(Tick(c), "execute_failed", session, "SELECT"), "SQLAlchemyError")
    ELSE Ev(Tick(c), "execute", session, "SELECT")

get_data_user_authentication(c, session, table_name, user_name) ==
    Let(session_execute(Return(c, <<>>), session, SessionSelectColumns,
                        ColumnSet(UserColumns) \cup {"last_update_date"}), LAMBDA c1 :
    Let(IF Ok(c1)
        THEN json_dumps(c1, UserRowsNamed(c1.db[table_name], user_name),
                        UserRowsNamed(c1.db[table_name], user_name) # <<>>)
        ELSE c1, LAMBDA c2 :
    \* except SQLAlchemyError as sql_exec: logger.exception(sql_exec)
    Let(IF CaughtAsSQLAlchemyError(c2.exc) THEN [c2 EXCEPT !.exc = NoExc, !.ret = <<>>] ELSE c2,
        LAMBDA c3 :
    \* finally: session.close()
    disconnect_from_db(c3, session))))

\* a caller that opens a session and passes it to get_data_user_authentication
UserDataOnOwnSession(c, user_name) ==
    Let(open_session(c), LAMBDA c1 :
        get_data_user_authentication(c1, Local(c1), UsersTable, user_name))

(***************************************************************************)
(* Inputs and initial table contents.                                      *)
(***************************************************************************)
\* the database fails no driver call, or one of the n driver calls that the
\* call makes when none fails (a failed driver call ends the call: what
\* follows it makes no further driver call)
FaultSets(n) == {{}} \cup {{k} : k \in 1..n}

StoreIds == 1..2
StoreCodes == 1..2
StoreNames == 1..2

StoreRow(id, code, name) ==
    [id_store |-> id, store_name |-> name, store_code |-> code,
     store_street_address |-> 3, store_external_number |-> 4, store_suburb_address |-> 5,
     store_city_address |-> 6, store_country_address |-> 7, store_zippostal_code |-> 8,
     store_min_inventory |-> 9, creation_date |-> 0, last_update_date |-> 0]

\* two rows with the same (id_store, store_code), one that differs in
\* store_code and one that differs in id_store
StoreRows == {StoreRow(1, 1, 1), StoreRow(1, 1, 2), StoreRow(1, 2, 1), StoreRow(2, 1, 1)}

\* a StoreModel object, by the attributes its getters return
StoreObjs == [id_store : StoreIds, store_code : StoreCodes, store_name : StoreNames,
              street_address : {3}, external_number : {4}, suburb_address : {5},
              city_address : {6}, country_address : {7}, zip_postal_address : {8},
              minimum_stock : {9}]

\* the dictionary update_store_data reads
DataStores == [store_id : StoreIds, store_code : StoreCodes, store_name : StoreNames,
               street_address : {3}, external_number_address : {4}, suburb_address : {5},
               city_address : {6}, country_address : {7}, zip_postal_code_address : {8},
               minimum_inventory : {9}]

Tables(rows, max) == UNION {[1..k -> rows] : k \in 0..max}

VanUuids == 0..1
VanPlates == 1..2
VanStatuses == 1..2

VanRows == [uuid_van : VanUuids, plates_van : VanPlates, economic_number_van : {1},
            seats_van : {4}, status_van : {1},
            created_at : {[s |-> 1, us |-> 0], [s |-> 1, us |-> 5]},
            last_update_date : {[s |-> 1, us |-> 0]}]

UserIds == 1..2
UserNames == 1..2
UserPasswords == 1..2
PasswordHashes == 1..2

RowKinds == {"tuple", "dict"}

\* the file has every key with a value
FullConfig == [k \in {ConfigKeys[i] : i \in 1..Len(ConfigKeys)} |-> "set"]

\* the files with at most one key that has no value or is not there
Configs ==
    {FullConfig} \cup
    {[FullConfig EXCEPT ![ConfigKeys[i]] = v] : i \in 1..Len(ConfigKeys), v \in {"null", "missing"}}

\* uuid_van is the primary key of the van table
VanTables ==
    {t \in Tables(VanRows, MaxVanRows) :
        \A i, j \in 1..Len(t) : t[i].uuid_van = t[j].uuid_van => i = j}

EmptyDb == [store_api |-> <<>>, van |-> <<>>, users_auth |-> <<>>, clock |-> 1, seq |-> 1]

NoCall == [op |-> "none", args |-> <<>>, key |-> <<>>, F |-> {}, exc |-> NoExc, ret |-> None,
           msg |-> "", log |-> <<>>, pre |-> EmptyDb]

Callers == 1..2

NoCalls == [p \in Callers |-> [pc |-> "idle", user_name |-> None, password_hash |-> None,
                               seen |-> FALSE, path |-> "none"]]

\* a run addresses one repository, over the tables it finds
Init ==
    /\ repository \in {"store", "van", "user", "connection"}
    /\ config \in IF repository = "connection" THEN Configs ELSE {FullConfig}
    /\ \E s \in Tables(StoreRows, MaxStoreRows), v \in VanTables :
          db = [EmptyDb EXCEPT !.store_api = IF repository = "store" THEN s ELSE <<>>,
                               !.van = IF repository = "van" THEN v ELSE <<>>]
    /\ open_conns = 0
    /\ rows_as \in RowKinds
    /\ last = NoCall
    /\ prev_key = <<>>
    /\ supplied = [u \in UserNames |-> None]
    /\ calls = NoCalls

(***************************************************************************)
(* Actions: one call of a repository function, from entry to return or     *)
(* raise.                                                                  *)
(***************************************************************************)
StillOpen(c) == Cardinality({i \in 1..Len(c.conns) : c.conns[i].open})

\* the run addresses repository r and no call is in progress
Serving(r) == repository = r /\ last.op = NoCall.op

Done(op, args, key, c) ==
    /\ open_conns + StillOpen(c) <= MaxOpenConns
    /\ open_conns' = open_conns + StillOpen(c)
    /\ db' = c.db
    /\ last' = [op |-> op, args |-> args, key |-> key, F |-> c.F, exc |-> c.exc,
                ret |-> IF Ok(c) THEN c.ret ELSE None, msg |-> c.msg, log |-> c.log,
                pre |-> db]
    /\ supplied' = IF op = "manage_user_authentication" /\ Ok(c)
                   THEN [supplied EXCEPT ![args.user_name] = args.password_hash]
                   ELSE supplied
    /\ UNCHANGED <<rows_as, repository, prev_key, config, calls>>

\* the caller takes the outcome of the call; calls run one at a time
ReturnToCaller ==
    /\ last.op # NoCall.op
    /\ last' = NoCall
    /\ prev_key' = IF last.op \in {"insert_new_store", "update_store_data"} THEN last.key
                   ELSE <<>>
    /\ UNCHANGED <<db, open_conns, rows_as, repository, supplied, config, calls>>

SessionToDb ==
    /\ Serving("connection")
    /\ \E n \in {OwnConnection(Ctx(db, {}, rows_as)).n} :
       \E F \in FaultSets(n) :
       \E c \in {OwnConnection(Ctx(db, F, rows_as))} :
          Done("session_to_db", <<>>, <<>>, c)

GetDatenowFromDb ==
    /\ Serving("store")
    /\ \E n \in {get_datenow_from_db(Ctx(db, {}, rows_as)).n} :
       \E F \in FaultSets(n) :
       \E c \in {get_datenow_from_db(Ctx(db, F, rows_as))} :
          Done("get_datenow_from_db", <<>>, <<>>, c)

ExistsDataRow ==
    /\ Serving("store")
    /\ \E col \in {"id_store", "store_name"}, id \in StoreIds, code \in StoreCodes :
       \E n \in {exists_data_row(Ctx(db, {}, rows_as), StoreTable, col,
                                 "id_store", id, "store_code", code).n} :
       \E F \in FaultSets(n) :
       \E c \in {exists_data_row(Ctx(db, F, rows_as), StoreTable, col,
                                 "id_store", id, "store_code", code)} :
          Done("exists_data_row", [column_name |-> col, value1 |-> id, value2 |-> code], <<>>, c)

ValidateTransaction ==
    /\ Serving("store")
    /\ \E col \in {"id_store", "store_name"},
          id \in StoreIds, code \in StoreCodes, name \in StoreNames :
       \E n \in {validate_transaction(Ctx(db, {}, rows_as), StoreTable, col, "id_store", id,
                                      "store_code", code, "store_name", name).n} :
       \E F \in FaultSets(n) :
       \E c \in {validate_transaction(Ctx(db, F, rows_as), StoreTable, col, "id_store", id,
                                      "store_code", code, "store_name", name)} :
          Done("validate_transaction",
               [column_name |-> col, value1 |-> id, value2 |-> code, value3 |-> name], <<>>, c)

InsertNewStore ==
    /\ Serving("store")
    /\ \E store_obj \in StoreObjs :
       \E n \in {insert_new_store(Ctx(db, {}, rows_as), StoreTable, store_obj).n} :
       \E F \in FaultSets(n) :
       \E c \in {insert_new_store(Ctx(db, F, rows_as), StoreTable, store_obj)} :
          Done("insert_new_store", store_obj, <<store_obj.id_store, store_obj.store_code>>, c)

UpdateStoreData ==
    /\ Serving("store")
    /\ \E data_store \in DataStores :
       \E n \in {update_store_data(Ctx(db, {}, rows_as), StoreTable, data_store).n} :
       \E F \in FaultSets(n) :
       \E c \in {update_store_data(Ctx(db, F, rows_as), StoreTable, data_store)} :
          Done("update_store_data", data_store, <<data_store.store_id, data_store.store_code>>, c)

DeleteStoreData ==
    /\ Serving("store")
    /\ \E id \in StoreIds, code \in StoreCodes :
       \E n \in {delete_store_data(Ctx(db, {}, rows_as), StoreTable, id, code).n} :
       \E F \in FaultSets(n) :
       \E c \in {delete_store_data(Ctx(db, F, rows_as), StoreTable, id, code)} :
          Done("delete_store_data", [store_id |-> id, store_code |-> code], <<>>, c)

GetNextvalEconomicNumberVan ==
    /\ Serving("van")
    /\ db.seq < MaxSeq
    /\ \E n \in {NextvalOnOwnConnection(Ctx(db, {}, rows_as)).n} :
       \E F \in FaultSets(n) :
       \E c \in {NextvalOnOwnConnection(Ctx(db, F, rows_as))} :
          Done("get_nextval_economic_number_van", <<>>, <<>>, c)

ManageVanVehicleData ==
    /\ Serving("van")
    /\ \E uuid \in VanUuids, plates \in VanPlates, status \in VanStatuses :
       \E n \in {manage_van_vehicle_data(Ctx(db, {}, rows_as), uuid, plates, 7, 4, status).n} :
       \E F \in FaultSets(n) :
       \E c \in {manage_van_vehicle_data(Ctx(db, F, rows_as), uuid, plates, 7, 4, status)} :
          Done("manage_van_vehicle_data",
               [uuid_van |-> uuid, plates_van |-> plates, economic_number_van |-> 7,
                seats_van |-> 4, status_van |-> status], <<>>, c)

SelectVanByUuid ==
    /\ Serving("van")
    /\ \E uuid \in VanUuids :
       \E n \in {select_van_by_uuid(Ctx(db, {}, rows_as), VanTable, uuid).n} :
       \E F \in FaultSets(n) :
       \E c \in {select_van_by_uuid(Ctx(db, F, rows_as), VanTable, uuid)} :
          Done("select_van_by_uuid", [uuid_van |-> uuid], <<>>, c)

SelectVanByStatus ==
    /\ Serving("van")
    /\ \E status \in VanStatuses :
       \E n \in {select_van_by_status(Ctx(db, {}, rows_as), VanTable, status).n} :
       \E F \in FaultSets(n) :
       \E c \in {select_van_by_status(Ctx(db, F, rows_as), VanTable, status)} :
          Done("select_van_by_status", [status_van |-> status], <<>>, c)

ValidateUserExists ==
    /\ Serving("user")
    /\ \E name \in UserNames :
       \E n \in {validate_user_exists(Ctx(db, {}, rows_as), name).n} :
       \E F \in FaultSets(n) :
       \E c \in {validate_user_exists(Ctx(db, F, rows_as), name)} :
          Done("validate_user_exists", [user_name |-> name], <<>>, c)

GetDataUserAuthentication ==
    /\ Serving("user")
    /\ \E name \in UserNames :
       \E n \in {UserDataOnOwnSession(Ctx(db, {}, rows_as), name).n} :
       \E F \in FaultSets(n) :
       \E c \in {UserDataOnOwnSession(Ctx(db, F, rows_as), name)} :
          Done("get_data_user_authentication", [user_name |-> name], <<>>, c)

ManageUserAuthentication ==
    /\ Serving("user")
    /\ \E id \in UserIds, name \in UserNames, pw \in UserPasswords, hash \in PasswordHashes :
       \E n \in {manage_user_authentication(Ctx(db, {}, rows_as), id, name, pw, hash).n} :
       \E F \in FaultSets(n) :
       \E c \in {manage_user_authentication(Ctx(db, F, rows_as), id, name, pw, hash)} :
          Done("manage_user_authentication",
               [user_id |-> id, user_name |-> name, user_password |-> pw,
                password_hash |-> hash], <<>>, c)

Next ==
    \/ SessionToDb
    \/ GetDatenowFromDb
    \/ ExistsDataRow
    \/ ValidateTransaction
    \/ InsertNewStore
    \/ UpdateStoreData
    \/ DeleteStoreData
    \/ GetNextvalEconomicNumberVan
    \/ ManageVanVehicleData
    \/ SelectVanByUuid
    \/ SelectVanByStatus
    \/ ValidateUserExists
    \/ GetDataUserAuthentication
    \/ ManageUserAuthentication
    \/ ReturnToCaller

Spec == Init /\ [][Next]_vars

(***************************************************************************)
(* Two callers of manage_user_authentication at once.  The call makes its  *)
(* existence check (validate_user_exists) and its write                    *)
(* (insert_user_authenticated or update_user_password_hashed) on two       *)
(* connections of their own, one after the other, with no lock held in     *)
(* between: the two are two steps, and steps of the other caller may come  *)
(* between them.                                                           *)
(***************************************************************************)
StoredUser == [last_update_date |-> None] @@ InsertedRow(UserColumns, <<1, 1, 1, 1>>)

InitRace ==
    /\ repository = "user"
    /\ config = FullConfig
    /\ \E u \in {<<>>, <<StoredUser>>} : db = [EmptyDb EXCEPT !.users_auth = u]
    /\ open_conns = 0
    /\ rows_as \in RowKinds
    /\ last = NoCall
    /\ prev_key = <<>>
    /\ supplied = [u \in UserNames |-> None]
    /\ calls = NoCalls

\* caller p calls manage_user_authentication(1, name, 1, hash)
RaceCall(p) ==
    /\ calls[p].pc = "idle"
    /\ \E name \in UserNames, hash \in PasswordHashes :
          calls' = [calls EXCEPT ![p] = [@ EXCEPT !.pc = "called", !.user_name = name,
                                                  !.password_hash = hash]]
    /\ UNCHANGED <<db, open_conns, rows_as, repository, last, prev_key, supplied, config>>

\* user_verification = validate_user_exists(user_name)
RaceValidateUserExists(p) ==
    /\ calls[p].pc = "called"
    /\ \E n \in {validate_user_exists(Ctx(db, {}, rows_as), calls[p].user_name).n} :
       \E F \in FaultSets(n) :
       \E c \in {validate_user_exists(Ctx(db, F, rows_as), calls[p].user_name)} :
          /\ open_conns + StillOpen(c) <= MaxOpenConns
          /\ open_conns' = open_conns + StillOpen(c)
          /\ db' = c.db
          /\ calls' = [calls EXCEPT ![p] =
                          IF Ok(c) THEN [@ EXCEPT !.pc = "checked", !.seen = c.ret[1]]
                          ELSE [@ EXCEPT !.pc = "raised"]]
    /\ UNCHANGED <<rows_as, repository, last, prev_key, supplied, config>>

\* if user_verification[0]: update_user_password_hashed(...)
\* else: insert_user_authenticated(...)
RaceStoreUser(p) ==
    /\ calls[p].pc = "checked"
    /\ \E n \in {manage_user_authentication_after_check(
                      Ctx(db, {}, rows_as), <<calls[p].seen>>, 1, calls[p].user_name, 1,
                      calls[p].password_hash).n} :
       \E F \in FaultSets(n) :
       \E c \in {manage_user_authentication_after_check(
                      Ctx(db, F, rows_as), <<calls[p].seen>>, 1, calls[p].user_name, 1,
                      calls[p].password_hash)} :
          /\ open_conns + StillOpen(c) <= MaxOpenConns
          /\ open_conns' = open_conns + StillOpen(c)
          /\ db' = c.db
          /\ calls' = [calls EXCEPT ![p] =
                          [@ EXCEPT !.pc = IF Ok(c) THEN "returned" ELSE "raised",
                                    !.path = IF c.log[1].what = "insert_user_authenticated"
                                             THEN "insert" ELSE "update"]]
    /\ UNCHANGED <<rows_as, repository, last, prev_key, supplied, config>>

NextRace ==
    \E p \in Callers :
        \/ RaceCall(p)
        \/ RaceValidateUserExists(p)
        \/ RaceStoreUser(p)

SpecRace == InitRace /\ [][NextRace]_vars

(***************************************************************************)
(* The error handler of the functions that roll back, entered with an      *)
(* exception raised in the try block after the write was executed.  The    *)
(* functions of this module raise no SQLAlchemyError inside a try block on *)
(* any path the driver can take them through (Spec), so the clause is      *)
(* exercised here with the exception in flight given as an input.          *)
(***************************************************************************)
RaisedInTry == {"SQLAlchemyError", "psycopg2.Error", "TypeError"}

\* conn = session_to_db(); cursor = conn.cursor(); cursor.execute(DELETE);
\* an exception of the kind given; except ...; finally ...
try_except_finally(c, table_name, store_id, store_code, kind) ==
    Let(session_to_db(c), LAMBDA c1 :
    Let(IF Ok(c1) THEN conn_cursor(c1, Local(c1)) ELSE c1, LAMBDA c2 :
    Let(IF Ok(c2)
        THEN execute_write(c2, Local(c1), "DELETE", 2, <<store_id, store_code>>, table_name,
                           RemainingRows(Visible(c2, Local(c1), table_name),
                                         "id_store", store_id, "store_code", store_code))
        ELSE c2, LAMBDA c3 :
    Let(IF Ok(c3) THEN Raise(c3, kind) ELSE c3, LAMBDA c4 :
    except_finally(c4, Local(c1))))))

InitHandler ==
    /\ repository = "handler"
    /\ config = FullConfig
    /\ \E s \in Tables(StoreRows, MaxStoreRows) : db = [EmptyDb EXCEPT !.store_api = s]
    /\ open_conns = 0
    /\ rows_as \in RowKinds
    /\ last = NoCall
    /\ prev_key = <<>>
    /\ supplied = [u \in UserNames |-> None]
    /\ calls = NoCalls

ExceptFinally ==
    /\ Serving("handler")
    /\ \E id \in StoreIds, code \in StoreCodes, kind \in RaisedInTry :
       \E n \in {try_except_finally(Ctx(db, {}, rows_as), StoreTable, id, code, kind).n} :
       \E F \in FaultSets(n) :
       \E c \in {try_except_finally(Ctx(db, F, rows_as), StoreTable, id, code, kind)} :
          Done("try_except_finally", [store_id |-> id, store_code |-> code, raised |-> kind],
               <<>>, c)

NextHandler ==
    \/ ExceptFinally
    \/ ReturnToCaller

SpecHandler == InitHandler /\ [][NextHandler]_vars

(***************************************************************************)
(* format_store_address over strings given as sequences of characters.     *)
(***************************************************************************)
Streets == {<<"R", "e", "f", "o", "r", "m", "a">>, <<"{", "}">>, <<>>}
ExternalNumbers == {<<"1", "2", "3">>, <<"7">>, <<"s", "/", "n">>}
Suburbs == {<<"C", "e", "n", "t", "r", "o">>, <<"R", "o", "m", "a", ",", " ", "N", "o", "r", "t", "e">>}
ZipCodes == {<<"0", "6", "0", "0", "0">>, <<"1">>}
Cities == {<<"C", "D", "M", "X">>, <<"L", "e", "o", "n">>}
Countries == {<<"M", "e", "x", "i", "c", "o">>, <<"P", "e", "r", "u">>}

InitFormat ==
    /\ repository = "format"
    /\ config = FullConfig
    /\ db = EmptyDb
    /\ open_conns = 0
    /\ rows_as = "dict"
    /\ last = NoCall
    /\ prev_key = <<>>
    /\ supplied = [u \in UserNames |-> None]
    /\ calls = NoCalls

FormatStoreAddress ==
    /\ Serving("format")
    /\ \E street \in Streets, number \in ExternalNumbers, suburb \in Suburbs :
       \E zip \in ZipCodes, city \in Cities, country \in Countries :
          Done("format_store_address",
               [street_address |-> street, external_number_address |-> number,
                suburb_address |-> suburb, zip_postal_code_address |-> zip,
                city_address |-> city, country_address |-> country],
               <<>>,
               Return(Ctx(db, {}, rows_as),
                      format_store_address(street, number, suburb, zip, city, country)))

NextFormat ==
    \/ FormatStoreAddress
    \/ ReturnToCaller

SpecFormat == InitFormat /\ [][NextFormat]_vars

(***************************************************************************)
(* Properties.                                                             *)
(***************************************************************************)
WriteCalls == {"insert_new_store", "update_store_data", "delete_store_data",
               "manage_user_authentication"}

WriteStatements == {"INSERT", "UPDATE", "DELETE"}

LogHas(ev) == \E i \in 1..Len(last.log) : last.log[i].ev = ev

Called(function) ==
    \E i \in 1..Len(last.log) : last.log[i].ev = "call" /\ last.log[i].what = function

\* the database failed the execute of the call's write statement
ExecuteFailed ==
    \E i \in 1..Len(last.log) :
        last.log[i].ev = "execute_failed" /\ last.log[i].what \in WriteStatements

CommitFailed == LogHas("commit_failed")

NoFault == last.F = {}

StoreRowsWith(rows, id, code) == Matching2(rows, "id_store", id, "store_code", code)

UserRowsWith(rows, name) == SelectSeq(rows, LAMBDA r : r.username = name)

\* C1: every repository operation has closed every connection it opened by
\* the time it returns or raises: after any sequence of completed
\* operations no connection is open.
C1_NoConnectionLeftOpen == open_conns = 0

\* C2: when the database fails the execute or the commit of a write
\* operation, a rollback is issued on the operation's connection before that
\* connection is closed, and the operation raises the typed transaction
\* error (tagged with the table name and the original error text).
C2_RollbackBeforeCloseThenTransactionError ==
    (last.op \in WriteCalls /\ last.exc = "psycopg2.Error" /\ (ExecuteFailed \/ CommitFailed))
    => /\ \E i, j \in 1..Len(last.log) :
              /\ i < j
              /\ last.log[i].ev = "rollback"
              /\ last.log[j].ev = "close"
              /\ last.log[i].conn = last.log[j].conn
       /\ last.exc = "SQLAlchemyError"

\* C3: when a write operation fails during execute or commit, the committed
\* contents of every table after the operation has raised are those of
\* before the operation.
C3_FailedWriteChangesNoTable ==
    (last.op \in WriteCalls /\ (ExecuteFailed \/ CommitFailed))
    => (last.exc # NoExc /\ db = last.pre)

\* a delete whose DELETE removed a stored row and whose commit the database
\* failed: the row is still stored
C3_Witness ==
    /\ last.op = "delete_store_data"
    /\ CommitFailed
    /\ StoreRowsWith(last.pre.store_api, last.args.store_id, last.args.store_code) # <<>>
    /\ db = last.pre

\* C4: manage_van_vehicle_data executes exactly the update when a row with
\* (uuid, plates) is stored and exactly the insert when none is, whatever
\* value the existence check returns.
C4_UpsertRoutesByExistence ==
    (last.op = "manage_van_vehicle_data" /\ NoFault)
    => IF Matching2(last.pre.van, "uuid_van", last.args.uuid_van,
                    "plates_van", last.args.plates_van) # <<>>
       THEN Called("update_store_data") /\ ~Called("insert_new_store")
       ELSE Called("insert_new_store") /\ ~Called("update_store_data")

\* C5: after any sequence of manage_user_authentication calls run one at a
\* time there is exactly one credential row for each user name supplied (by
\* a call that returned), and its password_hash is that of the latest such
\* call; a call with an unseen user name inserts one row, a call with a
\* stored user name takes the update path and inserts nothing.
C5_OneRowPerUserWithLatestHash ==
    /\ \A u \in UserNames :
          LET rows == UserRowsWith(db.users_auth, u)
          IN IF supplied[u] = None THEN rows = <<>>
             ELSE Len(rows) = 1 /\ rows[1].password_hash = supplied[u]
    /\ (last.op = "manage_user_authentication" /\ last.exc = NoExc)
       => IF UserRowsWith(last.pre.users_auth, last.args.user_name) = <<>>
          THEN /\ Called("insert_user_authenticated")
               /\ Len(db.users_auth) = Len(last.pre.users_auth) + 1
          ELSE /\ Called("update_user_password_hashed")
               /\ ~Called("insert_user_authenticated")
               /\ Len(db.users_auth) = Len(last.pre.users_auth)

\* a second call for a stored user name, with another hash, has returned
C5_Witness ==
    /\ last.op = "manage_user_authentication"
    /\ last.exc = NoExc
    /\ \E i \in 1..Len(last.pre.users_auth) :
          /\ last.pre.users_auth[i].username = last.args.user_name
          /\ last.pre.users_auth[i].password_hash # last.args.password_hash
          /\ db.users_auth[i].password_hash = last.args.password_hash
    /\ Len(db.users_auth) = 2

\* the outcome of a call: what it raised and the Message of its payload
Outcome(exc, msg) == <<exc, IF exc = NoExc THEN msg ELSE "">>

\* C6: delete_store_data for an (id_store, store_code) with no stored row
\* raises no connection-level error and ends in a typed "not deleted"
\* outcome, which differs from the outcome of delete_store_data for a pair
\* whose row was stored and has been removed.
C6_DeleteOfAbsentRowIsDistinctOutcome ==
    (/\ last.op = "delete_store_data"
     /\ NoFault
     /\ StoreRowsWith(last.pre.store_api, last.args.store_id, last.args.store_code) = <<>>)
    => /\ last.exc # "ConnectionError"
       /\ last.exc = "ItemNotStored" \/ (last.exc = NoExc /\ last.msg = "Store not deleted")
       /\ \A name \in StoreNames :
             LET stored == [last.pre EXCEPT !.store_api =
                               Append(@, StoreRow(last.args.store_id, last.args.store_code,
                                                  name))]
                 c == delete_store_data(Ctx(stored, {}, rows_as), StoreTable,
                                        last.args.store_id, last.args.store_code)
             IN Outcome(c.exc, c.msg) # Outcome(last.exc, last.msg)

\* C7: delete_store_data on a stored row removes the row and, the re-check
\* no longer finding it, returns the payload "Store Deleted Successful"
\* without raising; "Store not deleted" is returned as a payload exactly
\* when the re-check still finds the row.
C7_DeleteOfStoredRowReturnsSuccess ==
    (/\ last.op = "delete_store_data"
     /\ NoFault
     /\ StoreRowsWith(last.pre.store_api, last.args.store_id, last.args.store_code) # <<>>)
    => LET left == StoreRowsWith(db.store_api, last.args.store_id, last.args.store_code)
       IN /\ left = <<>>
          /\ last.exc = NoExc
          /\ last.msg = IF left = <<>> THEN "Store Deleted Successful" ELSE "Store not deleted"

\* C8: two store upserts with the same (id_store, store_code) leave exactly
\* one stored row for that key, and every field of it holds the value of the
\* second call, each in its own column.
C8_SecondUpsertWins ==
    (/\ last.op \in {"insert_new_store", "update_store_data"}
     /\ NoFault
     /\ prev_key = last.key)
    => LET rows == StoreRowsWith(db.store_api, last.key[1], last.key[2])
       IN /\ Len(rows) = 1
          /\ rows[1].store_name = last.args.store_name
          /\ rows[1].store_street_address = last.args.street_address
          /\ rows[1].store_suburb_address = last.args.suburb_address
          /\ rows[1].store_city_address = last.args.city_address
          /\ rows[1].store_country_address = last.args.country_address
          /\ rows[1].store_min_inventory =
                IF last.op = "insert_new_store" THEN last.args.minimum_stock
                ELSE last.args.minimum_inventory

\* C9: after a Van insert with an unused uuid, find-by-uuid returns exactly
\* one record with the inserted uuid, plates, seats and status, whose
\* economic_number was drawn from the sequence during the insert and is not
\* the caller's.
C9_InsertedVanIsFound ==
    (/\ last.op = "manage_van_vehicle_data"
     /\ NoFault
     /\ SelectSeq(last.pre.van, LAMBDA r : r.uuid_van = last.args.uuid_van) = <<>>)
    => LET c == select_van_by_uuid(Ctx(db, {}, rows_as), VanTable, last.args.uuid_van)
       IN /\ Ok(c)
          /\ Len(c.ret) = 1
          /\ c.ret[1].VanVehicle.UUID = last.args.uuid_van
          /\ c.ret[1].VanVehicle.Plate = last.args.plates_van
          /\ c.ret[1].VanVehicle.SeatsNumber = last.args.seats_van
          /\ c.ret[1].VanVehicle.Status = last.args.status_van
          /\ \E i \in 1..Len(last.log) : last.log[i].what = "SELECT nextval"

\* C10: exists_data_row and validate_transaction return the selected
\* column's value of the first row that matches all filters, and None when no
\* row matches, for any table contents.
C10_ReturnsValueOfFirstMatch ==
    (last.op \in {"exists_data_row", "validate_transaction"} /\ NoFault)
    => LET rows == IF last.op = "exists_data_row"
                   THEN Matching2(last.pre.store_api, "id_store", last.args.value1,
                                  "store_code", last.args.value2)
                   ELSE Matching3(last.pre.store_api, "id_store", last.args.value1,
                                  "store_code", last.args.value2,
                                  "store_name", last.args.value3)
       IN /\ last.exc = NoExc
          /\ last.ret = IF rows = <<>> THEN None ELSE rows[1][last.args.column_name]

\* the stored Van rows that the last select_van_by_uuid or
\* select_van_by_status call asks for
SelectedVans ==
    IF last.op = "select_van_by_uuid"
    THEN SelectSeq(last.pre.van, LAMBDA r : r.uuid_van = last.args.uuid_van)
    ELSE SelectSeq(last.pre.van, LAMBDA r : r.status_van = last.args.status_van)

\* C11: select_van_by_uuid and select_van_by_status return an empty list
\* without raising when the query selects no row, and no outcome of the
\* query other than an absent (None) result makes them raise the not-stored
\* error: as the driver's fetchall never yields None, they never raise it.
C11_EmptyResultIsNotAnError ==
    (last.op \in {"select_van_by_uuid", "select_van_by_status"})
    => /\ last.exc # "ItemNotStored"
       /\ (NoFault /\ SelectedVans = <<>>) => (last.exc = NoExc /\ last.ret = <<>>)

\* a select by status on a table that holds rows, none with that status
C11_Witness ==
    /\ last.op = "select_van_by_status"
    /\ NoFault
    /\ last.pre.van # <<>>
    /\ SelectedVans = <<>>
    /\ last.exc = NoExc
    /\ last.ret = <<>>

\* C12: select_van_by_status(s) returns one record for each stored Van row
\* whose status is s, and no record for a row whose status differs.
C12_SelectByStatusReturnsTheRowsOfTheStatus ==
    (last.op = "select_van_by_status" /\ NoFault)
    => /\ last.exc = NoExc
       /\ Len(last.ret) = Len(SelectedVans)
       /\ \A i \in 1..Len(last.ret) :
             /\ last.ret[i].VanVehicle.Status = last.args.status_van
             /\ last.ret[i].VanVehicle.UUID = SelectedVans[i].uuid_van

StoreRowsNamed(rows, id, code, name) ==
    Matching3(rows, "id_store", id, "store_code", code, "store_name", name)

\* C13: update_store_data returns a payload with Message "Store Updated
\* Successful" when the existence check made after the write finds the row
\* (id_store, store_code, store_name), and otherwise raises the transaction
\* error instead of returning a payload; an update for an (id_store,
\* store_code) with no stored row raises it.
C13_UpdateReportsByRecheck ==
    (last.op = "update_store_data" /\ NoFault)
    => IF StoreRowsNamed(db.store_api, last.args.store_id, last.args.store_code,
                         last.args.store_name) # <<>>
       THEN last.exc = NoExc /\ last.msg = "Store Updated Successful"
       ELSE /\ last.exc = "SQLAlchemyError"
            /\ StoreRowsWith(last.pre.store_api, last.args.store_id, last.args.store_code) = <<>>

\* C14: insert_new_store returns a payload both when it creates the row and
\* when the row is already stored: with Message "Store Inserted Successful"
\* when no row (id_store, store_code, store_name) was stored before the call
\* and the call created it, and with "Store already Inserted" only when such
\* a row was stored before the call.
C14_InsertMessageTellsCreatedFromStored ==
    (last.op = "insert_new_store" /\ NoFault)
    => /\ last.exc = NoExc
       /\ IF StoreRowsNamed(last.pre.store_api, last.args.id_store, last.args.store_code,
                            last.args.store_name) = <<>>
          THEN /\ last.msg = "Store Inserted Successful"
               /\ StoreRowsNamed(db.store_api, last.args.id_store, last.args.store_code,
                                 last.args.store_name) # <<>>
          ELSE last.msg = "Store already Inserted"

\* C15: a row created by insert_new_store has its creation_date and its
\* last_update_date set to the database clock read during the call.
C15_InsertedRowCarriesTheClock ==
    (/\ last.op = "insert_new_store"
     /\ NoFault
     /\ StoreRowsWith(last.pre.store_api, last.args.id_store, last.args.store_code) = <<>>)
    => LET rows == StoreRowsWith(db.store_api, last.args.id_store, last.args.store_code)
       IN /\ rows # <<>>
          /\ \A i \in 1..Len(rows) :
                /\ rows[i].creation_date = last.pre.clock
                /\ rows[i].last_update_date = last.pre.clock

RequiredSettings == {"HOST_DB", "USER_DB", "PASSWORD_DB", "PORT_DB", "DATABASE_NAME"}

ConnectAttempts == {k \in 1..Len(last.log) : last.log[k].ev \in {"connect", "connect_failed"}}

\* C19: when one of the five required settings (host, user, password, port,
\* database name) is absent from the configuration, session_to_db fails with
\* a ConnectionError, without attempting to connect and without raising
\* another kind of error.
C19_AbsentSettingIsConnectionError ==
    (last.op = "session_to_db" /\ \E k \in RequiredSettings : config[k] # "set")
    => (last.exc = "ConnectionError" /\ ConnectAttempts = {})

\* C20: when the driver fails to open a connection, session_to_db raises
\* ConnectionError after that one attempt, and the operation that called it
\* raises to its caller without any further statement, commit or write: what
\* follows the failed attempt are the closes of the connections opened
\* before it, and the tables are those of before the attempt.
C20_FailedConnectIsNotRetried ==
    \A k \in 1..Len(last.log) :
        (last.log[k].ev = "connect_failed")
        => /\ last.exc = "ConnectionError"
           /\ \A j \in 1..Len(last.log) : j > k => last.log[j].ev = "close"
           /\ (\A j \in 1..Len(last.log) : j < k => last.log[j].ev \notin {"commit", "execute"})
              => db = last.pre

\* a delete of a stored row whose connection the driver failed to open
C20_Witness ==
    /\ last.op = "delete_store_data"
    /\ StoreRowsWith(last.pre.store_api, last.args.store_id, last.args.store_code) # <<>>
    /\ Len(last.log) = 1
    /\ last.log[1].ev = "connect_failed"
    /\ last.exc = "ConnectionError"
    /\ db = last.pre

\* C18: two concurrent upserts of one key: both existence checks can observe
\* absence before either write commits, and then both calls take the insert
\* path for the key (two manage_user_authentication calls with one unseen
\* user name).  A call takes the insert path exactly when its own check saw
\* no row, whatever has been stored since, so two calls that both saw none
\* both insert, and both rows are stored.
C18_InsertPathFollowsTheCheck ==
    /\ \A p \in Callers :
          calls[p].path # "none" => (calls[p].path = "insert" <=> ~calls[p].seen)
    /\ \A p, q \in Callers :
          (/\ p # q
           /\ calls[p].pc = "returned" /\ calls[q].pc = "returned"
           /\ ~calls[p].seen /\ ~calls[q].seen
           /\ calls[p].user_name = calls[q].user_name)
          => Len(UserRowsWith(db.users_auth, calls[p].user_name)) = 2

\* both checks saw no row for the user name, and both calls have inserted
C18_Witness ==
    /\ calls[1].pc = "returned" /\ calls[2].pc = "returned"
    /\ calls[1].user_name = calls[2].user_name
    /\ ~calls[1].seen /\ ~calls[2].seen
    /\ calls[1].path = "insert" /\ calls[2].path = "insert"
    /\ Len(UserRowsWith(db.users_auth, calls[1].user_name)) = 2

FailedDriverCalls ==
    {k \in 1..Len(last.log) :
        last.log[k].ev \in {"connect_failed", "cursor_failed", "execute_failed",
                            "commit_failed", "rollback_failed"}}

\* ConnectionError, the transaction error and the not-stored errors
TypedErrors == {"ConnectionError", "SQLAlchemyError", "ItemNotStored", "NotStored"}

\* C21: no repository operation returns normally after a database failure
\* occurred inside it: the operation ends with a raised typed error
\* (ConnectionError, transaction error or a not-stored error), never with a
\* payload or an empty result.
C21_DatabaseFailureRaisesTypedError ==
    FailedDriverCalls # {} => last.exc \in TypedErrors

ConnectionUses ==
    {"cursor", "cursor_failed", "execute", "execute_failed", "commit", "commit_failed",
     "rollback", "rollback_failed"}

\* the call opened the connection of event k before it, and has not closed it
OpenedAndNotClosedBefore(k) ==
    \E i \in 1..(k - 1) :
        /\ last.log[i].ev \in {"connect", "session"}
        /\ last.log[i].conn = last.log[k].conn
        /\ \A j \in i..k : ~(last.log[j].ev = "close" /\ last.log[j].conn = last.log[k].conn)

\* C23: every call of session_to_db opens a new connection; a call uses only
\* connections that were opened for it, and executes no statement, commit or
\* rollback on a connection after that connection was closed.
C23_ConnectionsAreFreshAndUsedWhileOpen ==
    /\ \A i, j \in 1..Len(last.log) :
          /\ last.log[i].ev = "connect"
          /\ last.log[j].ev = "connect"
          /\ last.log[i].conn = last.log[j].conn
          => i = j
    /\ \A k \in 1..Len(last.log) :
          last.log[k].ev \in ConnectionUses => OpenedAndNotClosedBefore(k)

\* a delete whose re-check ran on a second connection, used after the first
\* was committed and closed only at the end
C23_Witness ==
    /\ last.op = "delete_store_data"
    /\ Cardinality({k \in 1..Len(last.log) : last.log[k].ev = "connect"}) = 2
    /\ \E k \in 1..Len(last.log) : last.log[k].ev = "execute" /\ last.log[k].conn = 2
    /\ Cardinality({k \in 1..Len(last.log) : last.log[k].ev = "close"}) = 2

\* C24: manage_user_authentication called with a stored userName changes only
\* password_hash and last_update_date of the row with that userName: the
\* row keeps its user_id and password, whatever the call supplies, and every
\* row with another userName is unchanged.
C24_UpdateTouchesOnlyHashAndDate ==
    (/\ last.op = "manage_user_authentication"
     /\ UserRowsNamed(last.pre.users_auth, last.args.user_name) # <<>>)
    => /\ Len(db.users_auth) = Len(last.pre.users_auth)
       /\ \A i \in 1..Len(last.pre.users_auth) :
             IF last.pre.users_auth[i].username = last.args.user_name
             THEN [db.users_auth[i] EXCEPT
                      !.password_hash = last.pre.users_auth[i].password_hash,
                      !.last_update_date = last.pre.users_auth[i].last_update_date]
                  = last.pre.users_auth[i]
             ELSE db.users_auth[i] = last.pre.users_auth[i]

\* an update that supplied another user_id and password than the stored
\* ones, with a row of another userName in the table
C24_Witness ==
    /\ last.op = "manage_user_authentication"
    /\ last.exc = NoExc
    /\ Len(last.pre.users_auth) = 2
    /\ \E i \in 1..2 :
          /\ last.pre.users_auth[i].username = last.args.user_name
          /\ last.pre.users_auth[i].user_id # last.args.user_id
          /\ last.pre.users_auth[i].password # last.args.user_password
          /\ last.pre.users_auth[i].password_hash # last.args.password_hash
          /\ db.users_auth[i].password_hash = last.args.password_hash
          /\ db.users_auth[i].user_id = last.pre.users_auth[i].user_id

\* C25: format_store_address(street, external_number, suburb, zip, city,
\* country) returns exactly "{street} no. {external_number}, col. {suburb},
\* Cp. {zip}, {city}, {country}", the six parts in that order, for all
\* inputs; for ("Reforma", "123", "Centro", "06000", "CDMX", "Mexico") it
\* returns "Reforma no. 123, col. Centro, Cp. 06000, CDMX, Mexico".
C25_AddressIsThePartsInOrder ==
    last.op = "format_store_address"
    => /\ last.ret = last.args.street_address \o <<" ", "n", "o", ".", " ">>
                     \o last.args.external_number_address \o <<",", " ", "c", "o", "l", ".", " ">>
                     \o last.args.suburb_address \o <<",", " ", "C", "p", ".", " ">>
                     \o last.args.zip_postal_code_address \o <<",", " ">>
                     \o last.args.city_address \o <<",", " ">>
                     \o last.args.country_address
       /\ (/\ last.args.street_address = <<"R", "e", "f", "o", "r", "m", "a">>
           /\ last.args.external_number_address = <<"1", "2", "3">>
           /\ last.args.suburb_address = <<"C", "e", "n", "t", "r", "o">>
           /\ last.args.zip_postal_code_address = <<"0", "6", "0", "0", "0">>
           /\ last.args.city_address = <<"C", "D", "M", "X">>
           /\ last.args.country_address = <<"M", "e", "x", "i", "c", "o">>)
          => last.ret =
             <<"R", "e", "f", "o", "r", "m", "a", " ", "n", "o", ".", " ", "1",
               "2", "3", ",", " ", "c", "o", "l", ".", " ", "C", "e", "n", "t",
               "r", "o", ",", " ", "C", "p", ".", " ", "0", "6", "0", "0", "0",
               ",", " ", "C", "D", "M", "X", ",", " ", "M", "e", "x", "i", "c",
               "o">>

C25_Witness ==
    /\ last.op = "format_store_address"
    /\ last.args.street_address = <<"R", "e", "f", "o", "r", "m", "a">>
    /\ last.args.zip_postal_code_address = <<"0", "6", "0", "0", "0">>
    /\ last.args.city_address = <<"C", "D", "M", "X">>
    /\ Len(last.ret) = 53

\* C26: in store insert, update and delete the commit of the write precedes
\* the existence re-check, which runs on a connection of its own; nothing is
\* rolled back after the commit, and when delete_store_data raises after its
\* re-check the committed write is still in the table.
C26_CommittedWriteSurvivesTheRecheck ==
    last.op \in {"insert_new_store", "update_store_data", "delete_store_data"}
    => \A k \in 1..Len(last.log) :
          last.log[k].ev = "commit"
          => /\ \A j \in 1..Len(last.log) :
                   (last.log[j].ev \in {"execute", "execute_failed"} /\ last.log[j].what = "SELECT")
                   => j > k /\ last.log[j].conn # last.log[k].conn
             /\ \A j \in (k + 1)..Len(last.log) : last.log[j].ev # "rollback"
             /\ last.op = "delete_store_data"
                => db.store_api = RemainingRows(last.pre.store_api,
                                                "id_store", last.args.store_id,
                                                "store_code", last.args.store_code)

\* a delete that committed the removal of a row and raised after its
\* re-check: the row is gone after the error
C26_Witness ==
    /\ last.op = "delete_store_data"
    /\ last.exc = "ItemNotStored"
    /\ LogHas("commit")
    /\ \E j \in 1..Len(last.log) :
          last.log[j].ev = "execute" /\ last.log[j].what = "SELECT" /\ last.log[j].conn = 2
    /\ Len(db.store_api) < Len(last.pre.store_api)

ReadOnlyOperations ==
    {"exists_data_row", "validate_transaction", "validate_user_exists", "select_van_by_uuid",
     "select_van_by_status", "get_datenow_from_db"}

\* C27: the read-only operations (exists_data_row, validate_transaction,
\* validate_user_exists, select_van_by_uuid, select_van_by_status,
\* get_datenow_from_db) leave the contents of every table unchanged and
\* never commit, whether they return or raise.
C27_ReadOnlyOperationsWriteNothing ==
    last.op \in ReadOnlyOperations
    => /\ db = last.pre
       /\ \A k \in 1..Len(last.log) : last.log[k].ev \notin {"commit", "commit_failed"}

\* a read of a table with rows that the database failed
C27_Witness ==
    /\ last.op = "validate_transaction"
    /\ last.exc = "psycopg2.Error"
    /\ LogHas("execute_failed")
    /\ Len(last.pre.store_api) = 2

\* C28: delete_store_data(table, id_store, store_code) removes only rows
\* whose id_store and store_code both equal the arguments: every row that
\* differs in id_store or in store_code is still stored, unchanged and in
\* its place, after the call, whether the call returns or raises.
C28_DeleteKeepsEveryOtherRow ==
    last.op = "delete_store_data"
    => /\ SelectSeq(db.store_api,
                    LAMBDA r : r.id_store # last.args.store_id
                               \/ r.store_code # last.args.store_code)
          = SelectSeq(last.pre.store_api,
                      LAMBDA r : r.id_store # last.args.store_id
                                 \/ r.store_code # last.args.store_code)
       /\ db.van = last.pre.van
       /\ db.users_auth = last.pre.users_auth

\* a delete that removed the row of its pair and kept the row with the same
\* id_store and another store_code
C28_Witness ==
    /\ last.op = "delete_store_data"
    /\ Len(last.pre.store_api) = 2
    /\ Len(db.store_api) = 1
    /\ db.store_api[1].id_store = last.args.store_id
    /\ db.store_api[1].store_code # last.args.store_code

\* C29: every cursor opened by exists_data_row and validate_transaction is
\* closed exactly once, before the connection is closed, whatever the
\* number of matching rows and on failure paths as on success.
C29_CursorClosedExactlyOnce ==
    (/\ last.op \in {"exists_data_row", "validate_transaction"}
     /\ LogHas("cursor"))
    => /\ Cardinality({k \in 1..Len(last.log) : last.log[k].ev = "close_cursor"}) = 1
       /\ \A k, j \in 1..Len(last.log) :
             (last.log[k].ev = "close_cursor" /\ last.log[j].ev = "close") => k < j

====
